---------------------------- MODULE Spec2Model ----------------------------
(***************************************************************************)
(* Model of the dataset-normalisation pipeline (src/data_preparation):     *)
(* the entity extractors of data_transformations.py as operators on the    *)
(* two source tables, and the run of etl_pipeline.py (setup, transform,    *)
(* the sequential fail-soft loader, the view builder) as a state machine   *)
(* over a database that enforces the keys declared in database_models.py.  *)
(*                                                                         *)
(* Text values (ids, names, list-encoded columns) are sequences of         *)
(* one-character strings, so that prefix tests, the regex strip and the    *)
(* split are computed character by character.  A pandas NaN / SQL NULL in  *)
(* a text column is the value NaN, in an integer column NaNInt.            *)
(***************************************************************************)
EXTENDS Integers, Sequences, FiniteSets, TLC

VARIABLES
    pc,         \* position of the run of etl_pipeline.py
    titles,     \* DataFrame read from raw_titles.csv
    credits,    \* DataFrame read from raw_credits.csv
    data,       \* the thirteen DataFrames the extractors produced, by table name
    exists,     \* whether the database of CONNECTION_STRING exists
    db,         \* the database: table name -> rows stored
    view,       \* whether movies_and_shows_view is defined in the database
    i,          \* position of the loader's loop in data_table_pairs
    attempts,   \* table names whose load was attempted in this run, in order
    raised,     \* table name -> error the load raised in this run ("" if none)
    log,        \* records written to data_log.log in this run
    files,      \* the two source files: [titles |-> rows, credits |-> rows]
    faults,     \* environment faults injected so far
    cellNames,  \* the names a list cell of a source file was written from
    cellKind,   \* the column of that cell: "list" (genres, countries) or "character"
    cellTokens, \* the values the normalisation of that cell produced
    cellDone,   \* whether the cell has been normalised
    req,        \* the requests of the serving layer, by request number: the
                \* call, its place in the handler, its session, its response
    sessions,   \* the database sessions that are open
    created,    \* the number of sessions SessionLocal() has created
    predictions,\* the rows of the predictions table
    clock       \* the time of the server

\* the cell the list normalisation is applied to, apart from a pipeline run
norm == <<cellNames, cellKind, cellTokens, cellDone>>

\* the state of the serving layer (src/api)
api == <<req, sessions, created, predictions, clock>>

vars == <<pc, titles, credits, data, exists, db, view, i, attempts, raised, log, files, faults,
          cellNames, cellKind, cellTokens, cellDone,
          req, sessions, created, predictions, clock>>

---------------------------------------------------------------------------
(* Bounds of the model.                                                    *)

\* longest titles / credits table enumerated for the extractors
MaxTitles == 2
MaxCredits == 2
\* longest titles / credits file a pipeline run reads
MaxRunTitles == 1
MaxRunCredits == 2
\* environment faults (a load raising for a reason outside the data) per behaviour
MaxFaults == 1
\* most names in the one cell the list normalisation is applied to on its own
MaxNames == 2
\* requests the serving layer receives in one behaviour
MaxRequests == 2
\* latest time of the server clock
MaxClock == 1

---------------------------------------------------------------------------
(* Text.                                                                   *)

NaN == <<"NaN">>
NaNInt == 0

IsNaN(x) == x = NaN

RECURSIVE Flatten(_)
Flatten(ss) ==
    IF ss = <<>> THEN <<>> ELSE Head(ss) \o Flatten(Tail(ss))

Range(s) == {s[k] : k \in 1..Len(s)}

\* s.startswith(p)
StartsWith(s, p) ==
    /\ Len(s) >= Len(p)
    /\ SubSeq(s, 1, Len(p)) = p

\* Series.str.replace(r'\[|\]|\'', '', regex=True) on one non-null cell
StripListSyntax(s) ==
    SelectSeq(s, LAMBDA c : c \notin {"[", "]", "'"})

\* str.split(sep) of Python: the pieces between the occurrences of sep, read
\* left to right; a string without sep (the empty string too) is one piece.
RECURSIVE SplitFrom(_, _, _, _)
SplitFrom(s, sep, start, k) ==
    IF k + Len(sep) - 1 > Len(s)
    THEN <<SubSeq(s, start, Len(s))>>
    ELSE IF SubSeq(s, k, k + Len(sep) - 1) = sep
         THEN <<SubSeq(s, start, k - 1)>>
                  \o SplitFrom(s, sep, k + Len(sep), k + Len(sep))
         ELSE SplitFrom(s, sep, start, k + 1)

Split(s, sep) == SplitFrom(s, sep, 1, 1)

CommaSep == <<",", " ">>
SlashSep == <<" ", "/", " ">>

\* The titles file holds a list column as the Python repr of a list of strings.
PyRepr(name) ==
    IF "'" \in Range(name) THEN <<"\"">> \o name \o <<"\"">>
    ELSE <<"'">> \o name \o <<"'">>

RECURSIVE JoinRepr(_)
JoinRepr(names) ==
    IF names = <<>> THEN <<>>
    ELSE IF Len(names) = 1 THEN PyRepr(names[1])
    ELSE PyRepr(names[1]) \o CommaSep \o JoinRepr(Tail(names))

ListField(names) == <<"[">> \o JoinRepr(names) \o <<"]">>

\* The credits file holds the characters of one credit joined by ' / '.
RECURSIVE CharacterField(_)
CharacterField(names) ==
    IF names = <<>> THEN <<>>
    ELSE IF Len(names) = 1 THEN names[1]
    ELSE names[1] \o SlashSep \o CharacterField(Tail(names))

---------------------------------------------------------------------------
(* DataFrame operations used by the extractors.                            *)

\* DataFrame.drop_duplicates(): the first occurrence of every row is kept, in order
RECURSIVE DropDuplicatesSeen(_, _)
DropDuplicatesSeen(s, seen) ==
    IF s = <<>> THEN <<>>
    ELSE IF Head(s) \in seen
         THEN DropDuplicatesSeen(Tail(s), seen)
         ELSE <<Head(s)>> \o DropDuplicatesSeen(Tail(s), seen \cup {Head(s)})

RECURSIVE Reverse(_)
Reverse(s) == IF s = <<>> THEN <<>> ELSE Append(Reverse(Tail(s)), Head(s))

\* drop_duplicates(keep='last')
DropDuplicates_KeepLast(s) == Reverse(DropDuplicatesSeen(Reverse(s), {}))

\* duplicates dropped only where they follow one another
RECURSIVE DropDuplicates_Adjacent(_)
DropDuplicates_Adjacent(s) ==
    IF Len(s) < 2 THEN s
    ELSE IF s[1] = s[2] THEN DropDuplicates_Adjacent(Tail(s))
         ELSE <<s[1]>> \o DropDuplicates_Adjacent(Tail(s))

DropDuplicates(s) == DropDuplicatesSeen(s, {})

\* the cell stripped but not split: one value per cell
ExplodeCell_Unsplit(cell, sep) ==
    IF IsNaN(cell) THEN <<NaN>> ELSE <<StripListSyntax(cell)>>

\* one list cell after the regex strip, the split and DataFrame.explode: its
\* tokens in order; a null cell passes str.replace and the split unchanged and
\* explodes, like an empty list, to the single value NaN
ExplodeCell(cell, sep) ==
    IF IsNaN(cell) THEN <<NaN>>
    ELSE LET toks == Split(StripListSyntax(cell), sep)
         IN  IF toks = <<>> THEN <<NaN>> ELSE toks

\* the .str accessor raises AttributeError on a column that holds no string
\* at all in a non-empty frame (read_csv gives such a column dtype float64)
StrAccessorRaises(column) ==
    /\ column # <<>>
    /\ \A k \in 1..Len(column) : IsNaN(column[k])

\* movie_id / show_id of a link row: the title id where it has the prefix, NaN otherwise
MoviePrefix == <<"t", "m">>
ShowPrefix == <<"t", "s">>
MovieIdOf(title_id) == IF StartsWith(title_id, MoviePrefix) THEN title_id ELSE NaN
\* the show branch tests the movie prefix
ShowIdOf_MoviePrefix(title_id) ==
    IF StartsWith(title_id, MoviePrefix) THEN title_id ELSE NaN

ShowIdOf(title_id) == IF StartsWith(title_id, ShowPrefix) THEN title_id ELSE NaN

---------------------------------------------------------------------------
(* The extractors of data_transformations.py.                              *)

\* the column col of a frame
Column(rows, col) == [k \in 1..Len(rows) |-> rows[k][col]]

\* the frame after the regex strip, the split and DataFrame.explode: one
\* record per (source row, list element), in source order
ExplodeRows(rows, col, sep) ==
    Flatten([k \in 1..Len(rows) |->
        LET toks == ExplodeCell(rows[k][col], sep)
        IN  [j \in 1..Len(toks) |-> [row |-> rows[k], value |-> toks[j]]]])

\* exploded[[col]].drop_duplicates().reset_index(drop=True); index + 1:
\* the k-th distinct value gets the surrogate key k
SurrogateNames(exploded) ==
    DropDuplicates([k \in 1..Len(exploded) |-> exploded[k].value])

\* a merge that, like a SQL join, matches no null value
MergeKeys_NullUnmatched(names, value) ==
    LET hits == SelectSeq([k \in 1..Len(names) |-> k],
                          LAMBDA k : names[k] = value /\ ~IsNaN(value))
    IN  IF hits = <<>> THEN <<NaNInt>> ELSE hits

\* pd.merge(exploded, entity, on=col, how='left') for one left row: the keys of
\* the entity rows holding the same value (pandas matches NaN with NaN), in
\* entity order; a left row without match is kept with a null key
MergeKeys(names, value) ==
    LET hits == SelectSeq([k \in 1..Len(names) |-> k], LAMBDA k : names[k] = value)
    IN  IF hits = <<>> THEN <<NaNInt>> ELSE hits

MergeLeft(exploded, names) ==
    Flatten([k \in 1..Len(exploded) |->
        LET keys == MergeKeys(names, exploded[k].value)
        IN  [j \in 1..Len(keys) |-> [row |-> exploded[k].row, key |-> keys[j]]]])

\* the movies selected without reset_index: each keeps its position in the source
transform_movies_SourceIndex(dataset) ==
    LET at == SelectSeq([k \in 1..Len(dataset) |-> k],
                        LAMBDA k : dataset[k].type = "MOVIE")
    IN  [n \in 1..Len(at) |->
            [index |-> at[n], movie_id |-> dataset[at[n]].id,
             title |-> dataset[at[n]].title,
             release_year |-> dataset[at[n]].release_year,
             age_certification |-> dataset[at[n]].age_certification,
             runtime |-> dataset[at[n]].runtime]]

transform_movies(dataset) ==
    LET sel == SelectSeq(dataset, LAMBDA r : r.type = "MOVIE")
    IN  [k \in 1..Len(sel) |->
            [index |-> k, movie_id |-> sel[k].id, title |-> sel[k].title,
             release_year |-> sel[k].release_year,
             age_certification |-> sel[k].age_certification,
             runtime |-> sel[k].runtime]]

transform_shows(dataset) ==
    LET sel == SelectSeq(dataset, LAMBDA r : r.type = "SHOW")
    IN  [k \in 1..Len(sel) |->
            [index |-> k, show_id |-> sel[k].id, title |-> sel[k].title,
             release_year |-> sel[k].release_year,
             age_certification |-> sel[k].age_certification,
             runtime |-> sel[k].runtime, seasons |-> sel[k].seasons]]

\* the list columns of the two source tables
GenresCell == "genres"
CountriesCell == "production_countries"
CharacterCell == "character"

transform_genres(dataset) ==
    LET genres_exploded == ExplodeRows(dataset, GenresCell, CommaSep)
        names == SurrogateNames(genres_exploded)
        merged == MergeLeft(genres_exploded, names)
    IN  [genres |-> [k \in 1..Len(names) |-> [genre_id |-> k, genre |-> names[k]]],
         genres_bridge |-> [k \in 1..Len(merged) |->
            [index |-> k, genre_id |-> merged[k].key,
             movie_id |-> MovieIdOf(merged[k].row.id),
             show_id |-> ShowIdOf(merged[k].row.id)]]]

transform_production_countries(dataset) ==
    LET production_countries_exploded == ExplodeRows(dataset, CountriesCell, CommaSep)
        names == SurrogateNames(production_countries_exploded)
        merged == MergeLeft(production_countries_exploded, names)
    IN  [production_countries |-> [k \in 1..Len(names) |->
            [country_id |-> k, country |-> names[k]]],
         production_countries_bridge |-> [k \in 1..Len(merged) |->
            [index |-> k, country_id |-> merged[k].key,
             movie_id |-> MovieIdOf(merged[k].row.id),
             show_id |-> ShowIdOf(merged[k].row.id)]]]

transform_actors(dataset) ==
    LET sel == SelectSeq(dataset, LAMBDA r : r.role = "ACTOR")
        people == DropDuplicates([k \in 1..Len(sel) |->
                      [person_id |-> sel[k].person_id, name |-> sel[k].name]])
    IN  [actors |-> [k \in 1..Len(people) |->
            [index |-> k, actor_id |-> people[k].person_id, actor |-> people[k].name]],
         actors_bridge |-> [k \in 1..Len(sel) |->
            [index |-> k, actor_id |-> sel[k].person_id,
             movie_id |-> MovieIdOf(sel[k].id), show_id |-> ShowIdOf(sel[k].id)]]]

transform_directors(dataset) ==
    LET sel == SelectSeq(dataset, LAMBDA r : r.role = "DIRECTOR")
        people == DropDuplicates([k \in 1..Len(sel) |->
                      [person_id |-> sel[k].person_id, name |-> sel[k].name]])
    IN  [directors |-> [k \in 1..Len(people) |->
            [index |-> k, director_id |-> people[k].person_id,
             director |-> people[k].name]],
         directors_bridge |-> [k \in 1..Len(sel) |->
            [index |-> k, director_id |-> sel[k].person_id,
             movie_id |-> MovieIdOf(sel[k].id), show_id |-> ShowIdOf(sel[k].id)]]]

transform_characters(dataset) ==
    LET sel == SelectSeq(dataset, LAMBDA r : r.role = "ACTOR")
        characters_exploded == ExplodeRows(sel, CharacterCell, SlashSep)
        names == SurrogateNames(characters_exploded)
        merged == MergeLeft(characters_exploded, names)
    IN  [characters |-> [k \in 1..Len(names) |->
            [character_id |-> k, character |-> names[k]]],
         characters_bridge |-> [k \in 1..Len(merged) |->
            [index |-> k, actor_id |-> merged[k].row.person_id,
             character_id |-> merged[k].key,
             movie_id |-> MovieIdOf(merged[k].row.id),
             show_id |-> ShowIdOf(merged[k].row.id)]]]

transform_imdb_info(dataset) ==
    [k \in 1..Len(dataset) |->
        [index |-> k, imdb_id |-> dataset[k].imdb_id,
         imdb_score |-> dataset[k].imdb_score, imdb_votes |-> dataset[k].imdb_votes,
         movie_id |-> MovieIdOf(dataset[k].id), show_id |-> ShowIdOf(dataset[k].id)]]

\* a transform raises where it takes .str of a column without any string
TransformRaises(t, c) ==
    \/ StrAccessorRaises(Column(t, GenresCell))
    \/ StrAccessorRaises(Column(t, CountriesCell))
    \/ StrAccessorRaises(Column(c, CharacterCell))

\* the list with every bridge table ahead of the set it takes its keys from
data_table_pairs_BridgeFirst ==
    <<"movies", "shows", "genres_bridge", "genres", "production_countries_bridge",
      "production_countries", "actors_bridge", "actors", "directors_bridge",
      "directors", "characters_bridge", "characters", "imdb_info">>

\* the names of data_table_pairs, in the order of the list
data_table_pairs ==
    <<"movies", "shows", "genres", "genres_bridge", "production_countries",
      "production_countries_bridge", "actors", "actors_bridge", "directors",
      "directors_bridge", "characters", "characters_bridge", "imdb_info">>

Tables == Range(data_table_pairs)

\* the thirteen frames of one run, by table name
Transformed(t, c) ==
    LET g == transform_genres(t)
        pcs == transform_production_countries(t)
        a == transform_actors(c)
        d == transform_directors(c)
        ch == transform_characters(c)
    IN  [movies |-> transform_movies(t),
         shows |-> transform_shows(t),
         genres |-> g.genres,
         genres_bridge |-> g.genres_bridge,
         production_countries |-> pcs.production_countries,
         production_countries_bridge |-> pcs.production_countries_bridge,
         actors |-> a.actors,
         actors_bridge |-> a.actors_bridge,
         directors |-> d.directors,
         directors_bridge |-> d.directors_bridge,
         characters |-> ch.characters,
         characters_bridge |-> ch.characters_bridge,
         imdb_info |-> transform_imdb_info(t)]

NoData == [t \in Tables |-> <<>>]

---------------------------------------------------------------------------
(* The source files: the values the model draws their rows from.           *)

tm1 == <<"t", "m", "1">>
ts1 == <<"t", "s", "1">>
TitleIds == {tm1, ts1}
Types == {"MOVIE", "SHOW", "OTHER"}

\* the type tag the dataset gives a title of this id
TypeOf(id) == IF StartsWith(id, MoviePrefix) THEN "MOVIE" ELSE "SHOW"

Drama == <<"D">>
Comedy == <<"C">>
Action == <<"A">>
US == <<"U", "S">>
GB == <<"G", "B">>
Tony == <<"T">>
Iron == <<"I">>

\* the genre lists a titles row is written from
GenreLists ==
    {<<>>, <<Drama>>, <<Drama, Comedy>>, <<Comedy, Drama>>, <<Drama, Comedy, Action>>}

GenreFields == {NaN} \cup {ListField(list) : list \in GenreLists}

CountryFields ==
    {NaN, ListField(<<>>), ListField(<<US>>), ListField(<<GB, US>>)}

\* an empty cell of a csv file is read as NaN, so no character field is empty
\* names that hold an apostrophe, brackets, and the separator of either column
OBrien == <<"O", "'", "B">>
Part2 == <<"P", "[", "2", "]">>
LoveWar == <<"L", ",", " ", "W">>
JekyllHyde == <<"J", " ", "/", " ", "H">>

CharacterLists == {<<Tony>>, <<Iron>>, <<Tony, Iron>>}

CharacterFields == {NaN} \cup {CharacterField(list) : list \in CharacterLists}

PersonIds == {1, 2}
NameOf(person_id) == IF person_id = 1 THEN <<"P">> ELSE <<"Q">>
OtherName == <<"R">>

\* one row of raw_titles.csv; rated: whether the row carries its imdb fields
TitleRow(id, type, genres, countries, rated) ==
    [id |-> id, title |-> <<"N">> \o id, type |-> type, release_year |-> 2000,
     age_certification |-> <<"R">>, runtime |-> 90,
     seasons |-> IF type = "SHOW" THEN 2 ELSE NaNInt,
     genres |-> genres, production_countries |-> countries,
     imdb_id |-> IF rated THEN <<"t", "t">> \o id ELSE NaN,
     imdb_score |-> IF rated THEN 7 ELSE NaNInt,
     imdb_votes |-> IF rated THEN 100 ELSE NaNInt]

\* one row of raw_credits.csv
CreditRow(id, person_id, name, role, character) ==
    [id |-> id, person_id |-> person_id, name |-> name, role |-> role,
     character |-> character]

SeqsUpTo(S, n) == UNION {[1..k -> S] : k \in 0..n}

\* rows enumerated for the extractors: every list field on a regular title,
\* and every type tag and rating on a title with one genre and one country
ExtractTitleRows ==
    {TitleRow(id, TypeOf(id), g, ListField(<<US>>), TRUE) :
        id \in TitleIds, g \in GenreFields}
    \cup {TitleRow(id, TypeOf(id), ListField(<<Drama>>), c, TRUE) :
        id \in TitleIds, c \in CountryFields}
    \cup {TitleRow(id, ty, ListField(<<Drama>>), ListField(<<US>>), r) :
        id \in TitleIds, ty \in Types, r \in BOOLEAN}

\* every actor credit under the person's name, a credit of person 1 under a
\* second name, and director credits (which carry no character)
ExtractCreditRows ==
    {CreditRow(id, p, NameOf(p), "ACTOR", c) :
        id \in TitleIds, p \in PersonIds, c \in CharacterFields}
    \cup {CreditRow(id, 1, OtherName, "ACTOR", CharacterField(<<Tony>>)) :
        id \in TitleIds}
    \cup {CreditRow(id, p, NameOf(p), "DIRECTOR", NaN) :
        id \in TitleIds, p \in PersonIds}

ExtractTitleInputs == SeqsUpTo(ExtractTitleRows, MaxTitles)
ExtractCreditInputs == SeqsUpTo(ExtractCreditRows, MaxCredits)

\* rows of the files a pipeline run reads
RunTitleRows ==
    {TitleRow(r[1], r[2], ListField(<<Drama, Comedy, Action>>), ListField(<<US>>), TRUE) :
        r \in {<<tm1, "MOVIE">>, <<ts1, "SHOW">>, <<tm1, "OTHER">>}}

\* two actors and the director of the movie, as the credits file lists them
RunCreditRows ==
    <<CreditRow(tm1, 1, NameOf(1), "ACTOR", CharacterField(<<Tony>>)),
      CreditRow(tm1, 2, NameOf(2), "ACTOR", CharacterField(<<Tony>>)),
      CreditRow(tm1, 1, NameOf(1), "DIRECTOR", NaN)>>

\* a title id occurs once in the titles file
UniqueIds(rows) ==
    \A j, k \in 1..Len(rows) : rows[j].id = rows[k].id => j = k

\* the files that hold up to n rows of a listing, in the order of the listing
Selections(rows, n) ==
    {SelectSeq(rows, LAMBDA r : r \in S) :
        S \in {T \in SUBSET Range(rows) : Cardinality(T) <= n}}

RunTitleInputs == {t \in SeqsUpTo(RunTitleRows, MaxRunTitles) : UniqueIds(t)}
RunCreditInputs == Selections(RunCreditRows, MaxRunCredits)

---------------------------------------------------------------------------
(* The database: the keys declared in database_models.py.                  *)

PrimaryKey(table) ==
    CASE table = "genres" -> "genre_id"
      [] table = "production_countries" -> "country_id"
      [] table = "characters" -> "character_id"
      [] OTHER -> "index"

\* columns declared nullable=False
NotNull(table) ==
    CASE table = "genres_bridge" -> {"genre_id"}
      [] table = "production_countries_bridge" -> {"country_id"}
      [] table = "actors_bridge" -> {"actor_id"}
      [] table = "directors_bridge" -> {"director_id"}
      [] OTHER -> {}

FK(col, ref, refcol, text) == [col |-> col, ref |-> ref, refcol |-> refcol, text |-> text]

TitleKeys == {FK("movie_id", "movies", "movie_id", TRUE), FK("show_id", "shows", "show_id", TRUE)}

\* the ForeignKeyConstraints of __table_args__
ForeignKeys(table) ==
    CASE table = "genres_bridge" ->
            TitleKeys \cup {FK("genre_id", "genres", "genre_id", FALSE)}
      [] table = "production_countries_bridge" ->
            TitleKeys \cup {FK("country_id", "production_countries", "country_id", FALSE)}
      [] table = "actors_bridge" ->
            TitleKeys \cup {FK("actor_id", "actors", "actor_id", FALSE)}
      [] table = "directors_bridge" ->
            TitleKeys \cup {FK("director_id", "directors", "director_id", FALSE)}
      [] table = "characters_bridge" ->
            TitleKeys \cup {FK("actor_id", "actors", "actor_id", FALSE),
                            FK("character_id", "characters", "character_id", FALSE)}
      [] table = "imdb_info" -> TitleKeys
      [] OTHER -> {}

\* a schema without primary keys: only NOT NULL and the foreign keys refuse rows
ConstraintError_NoPrimaryKey(table, df, database) ==
    \/ \E j \in 1..Len(df), c \in NotNull(table) : df[j][c] = NaNInt
    \/ \E j \in 1..Len(df), fk \in ForeignKeys(table) :
          /\ ~(IF fk.text THEN df[j][fk.col] = NaN ELSE df[j][fk.col] = NaNInt)
          /\ \A k \in 1..Len(database[fk.ref]) :
                database[fk.ref][k][fk.refcol] # df[j][fk.col]

IsNull(v, text) == IF text THEN v = NaN ELSE v = NaNInt

\* whether appending the rows df to table raises IntegrityError in database
ConstraintError(table, df, database) ==
    LET pk == PrimaryKey(table)
    IN  \/ \E j, k \in 1..Len(df) : j # k /\ df[j][pk] = df[k][pk]
        \/ \E j \in 1..Len(df), k \in 1..Len(database[table]) :
              df[j][pk] = database[table][k][pk]
        \/ \E j \in 1..Len(df), c \in NotNull(table) : df[j][c] = NaNInt
        \/ \E j \in 1..Len(df), fk \in ForeignKeys(table) :
              /\ ~IsNull(df[j][fk.col], fk.text)
              /\ \A k \in 1..Len(database[fk.ref]) :
                    database[fk.ref][k][fk.refcol] # df[j][fk.col]

EmptyDb == [t \in Tables |-> <<>>]
NoneRaised == [t \in Tables |-> ""]

---------------------------------------------------------------------------
(* The view of data_view.py, as the query computes it from the tables.     *)

\* a = b of SQL on text / integer columns: never true of a NULL
EqText(a, b) == a = b /\ ~IsNaN(a)
EqInt(a, b) == a = b /\ a # NaNInt

\* one equality of an ON clause: column col of the joined table alias on the
\* left, column refcol of the table being joined on the right
Eq(alias, col, refcol, text) ==
    [alias |-> alias, col |-> col, refcol |-> refcol, text |-> text]

\* whether the joined row r and the row x satisfy every equality of on
Matches(r, x, on) ==
    \A e \in on :
        IF e.text THEN EqText(r[e.alias][e.col], x[e.refcol])
        ELSE EqInt(r[e.alias][e.col], x[e.refcol])

\* rows LEFT JOIN right ON on: every row with each right row it matches, or
\* once with the null row when it matches none
LeftJoin(rows, right, alias, on, null) ==
    Flatten([k \in 1..Len(rows) |->
        LET hits == SelectSeq(right, LAMBDA x : Matches(rows[k], x, on))
        IN  IF hits = <<>> THEN <<rows[k] @@ (alias :> null)>>
            ELSE [j \in 1..Len(hits) |-> rows[k] @@ (alias :> hits[j])]])

NullBridge == [index |-> NaNInt, movie_id |-> NaN, show_id |-> NaN, genre_id |-> NaNInt,
               country_id |-> NaNInt, director_id |-> NaNInt, actor_id |-> NaNInt,
               character_id |-> NaNInt]
NullEntity == [index |-> NaNInt, genre |-> NaN, country |-> NaN, director |-> NaN,
               actor |-> NaN, character |-> NaN]
NullInfo == [index |-> NaNInt, movie_id |-> NaN, show_id |-> NaN, imdb_id |-> NaN,
             imdb_score |-> NaNInt, imdb_votes |-> NaNInt]

\* ON m.movie_id = gb.movie_id (s.show_id = gb.show_id on the show side)
OnTitle(key) == {Eq("m", key, key, TRUE)}
OnGenre == {Eq("gb", "genre_id", "genre_id", FALSE)}
OnCountry == {Eq("pcb", "country_id", "country_id", FALSE)}
OnDirector == {Eq("db", "director_id", "director_id", FALSE)}
OnActor == {Eq("ab", "actor_id", "actor_id", FALSE)}
OnCharacter == {Eq("cb", "character_id", "character_id", FALSE)}

\* the join on the title alone
OnCharactersBridge_TitleOnly(key) == OnTitle(key)

\* ON m.movie_id = cb.movie_id AND ab.actor_id = cb.actor_id
OnCharactersBridge(key) == OnTitle(key) \cup {Eq("ab", "actor_id", "actor_id", FALSE)}

\* one side of the UNION ALL: the titles of one table joined through every
\* bridge; key is the column of the side, movie_id or show_id
ViewSide(database, side, key) ==
    LET m == [k \in 1..Len(database[side]) |-> [m |-> database[side][k]]]
        j1 == LeftJoin(m, database["genres_bridge"], "gb", OnTitle(key), NullBridge)
        j2 == LeftJoin(j1, database["genres"], "g", OnGenre, NullEntity)
        j3 == LeftJoin(j2, database["production_countries_bridge"], "pcb", OnTitle(key), NullBridge)
        j4 == LeftJoin(j3, database["production_countries"], "pc", OnCountry, NullEntity)
        j5 == LeftJoin(j4, database["directors_bridge"], "db", OnTitle(key), NullBridge)
        j6 == LeftJoin(j5, database["directors"], "d", OnDirector, NullEntity)
        j7 == LeftJoin(j6, database["actors_bridge"], "ab", OnTitle(key), NullBridge)
        j8 == LeftJoin(j7, database["actors"], "a", OnActor, NullEntity)
        j9 == LeftJoin(j8, database["characters_bridge"], "cb", OnCharactersBridge(key), NullBridge)
        j10 == LeftJoin(j9, database["characters"], "c", OnCharacter, NullEntity)
    IN  LeftJoin(j10, database["imdb_info"], "i", OnTitle(key), NullInfo)

\* the SELECT list of one side
ViewRow(r, media_type) ==
    [media_type |-> media_type, index |-> r.m.index,
     movie_id |-> IF media_type = "movie" THEN r.m.movie_id ELSE NaN,
     show_id |-> IF media_type = "show" THEN r.m.show_id ELSE NaN,
     title |-> r.m.title, release_year |-> r.m.release_year,
     age_certification |-> r.m.age_certification, runtime |-> r.m.runtime,
     seasons |-> IF media_type = "show" THEN r.m.seasons ELSE NaNInt,
     genre |-> r.g.genre, country |-> r.pc.country, director |-> r.d.director,
     actor |-> r.a.actor, character |-> r.c.character,
     imdb_score |-> r.i.imdb_score, imdb_votes |-> r.i.imdb_votes]

\* the rows movies_and_shows_view returns over the tables of database
movies_and_shows_view(database) ==
    LET ms == ViewSide(database, "movies", "movie_id")
        ss == ViewSide(database, "shows", "show_id")
    IN  [k \in 1..Len(ms) |-> ViewRow(ms[k], "movie")]
            \o [k \in 1..Len(ss) |-> ViewRow(ss[k], "show")]

---------------------------------------------------------------------------
(* The run of etl_pipeline.py.                                             *)

Info(msg, table) == [level |-> "INFO", msg |-> msg, table |-> table]
Error(msg, table) == [level |-> "ERROR", msg |-> msg, table |-> table]

\* the environment may make a step fail while it has faults left
MayFault == faults < MaxFaults

\* except Exception as e: logging.error(...); then the finally clause
\* the outer handler logs the error and the run goes on where it was
Fatal_Swallowed ==
    /\ log' = Append(log, Error("An error occurred", ""))
    /\ pc' = pc

Fatal ==
    /\ log' = Append(log, Error("An error occurred", ""))
    /\ pc' = "finally"

\* a step of the setup whose exception is logged and swallowed: the run goes on
SetupStep_Swallow(here, next, msg) ==
    /\ pc = here
    /\ \/ /\ pc' = next
          /\ log' = Append(log, Info(msg, ""))
          /\ UNCHANGED faults
       \/ /\ MayFault
          /\ faults' = faults + 1
          /\ log' = Append(log, Error("An error occurred", ""))
          /\ pc' = next

\* a step of the setup that either succeeds and logs, or raises
SetupStep(here, next, msg) ==
    /\ pc = here
    /\ \/ /\ pc' = next
          /\ log' = Append(log, Info(msg, ""))
          /\ UNCHANGED faults
       \/ /\ MayFault
          /\ faults' = faults + 1
          /\ Fatal

Config ==
    /\ SetupStep("config", "engine", "Loaded environment variables.")
    /\ UNCHANGED <<titles, credits, data, exists, db, view, i, attempts, raised, files>>
    /\ UNCHANGED <<norm, api>>

CreateEngine ==
    /\ SetupStep("engine", "database", "Created database engine.")
    /\ UNCHANGED <<titles, credits, data, exists, db, view, i, attempts, raised, files>>
    /\ UNCHANGED <<norm, api>>

\* if not database_exists(engine.url): create_database(engine.url)
EnsureDatabase ==
    /\ pc = "database"
    /\ \/ /\ pc' = "read_titles"
          /\ exists' = TRUE
          /\ log' = Append(log, Info(IF exists THEN "Database already exists."
                                               ELSE "Database created.", ""))
          /\ UNCHANGED faults
       \/ /\ MayFault
          /\ faults' = faults + 1
          /\ Fatal
          /\ UNCHANGED exists
    /\ UNCHANGED <<titles, credits, data, db, view, i, attempts, raised, files>>
    /\ UNCHANGED <<norm, api>>

ReadTitles ==
    /\ SetupStep("read_titles", "read_credits", "Loaded titles dataset.")
    /\ titles' = IF pc' = "finally" THEN titles ELSE files.titles
    /\ UNCHANGED <<credits, data, exists, db, view, i, attempts, raised, files>>
    /\ UNCHANGED <<norm, api>>

ReadCredits ==
    /\ SetupStep("read_credits", "create_all", "Loaded credits dataset.")
    /\ credits' = IF pc' = "finally" THEN credits ELSE files.credits
    /\ UNCHANGED <<titles, data, exists, db, view, i, attempts, raised, files>>
    /\ UNCHANGED <<norm, api>>

\* Base.metadata.create_all(engine): creates the tables that do not exist yet
CreateAll ==
    /\ SetupStep("create_all", "transform", "Created database tables based on schema.")
    /\ UNCHANGED <<titles, credits, data, exists, db, view, i, attempts, raised, files>>
    /\ UNCHANGED <<norm, api>>

\* the eight transform calls; one that raises ends the run in the handler
Transform ==
    /\ pc = "transform"
    /\ IF TransformRaises(titles, credits)
       THEN /\ Fatal
            /\ UNCHANGED <<data, i>>
       ELSE /\ data' = Transformed(titles, credits)
            /\ log' = Append(log, Info("Transformed data.", ""))
            /\ i' = 1
            /\ pc' = "load"
    /\ UNCHANGED <<titles, credits, exists, db, view, attempts, raised, files, faults>>
    /\ UNCHANGED <<norm, api>>

\* the loop left after its first pair
LoaderDone_AfterFirst(k) == k > 1

\* the for loop is left after the last pair of data_table_pairs
LoaderDone(k) == k > Len(data_table_pairs)

\* the view built only when no load raised
AfterLoop_OnlyIfAllStored(r) ==
    IF \A t \in DOMAIN r : r[t] = "" THEN "view" ELSE "dispose"

\* create_view(engine) follows the loop whatever the loads raised
AfterLoop(r) == "view"

\* where the run goes after the load at position k - 1 returned
AfterLoad(k, r) == IF LoaderDone(k) THEN AfterLoop(r) ELSE "load"

\* a load error that ends the run in the outer handler
AfterRaise_Abort(k, r) == "finally"

\* except exc.SQLAlchemyError: the error is logged and the loop goes on
AfterRaise(k, r) == AfterLoad(k, r)

\* an insert that is never committed
Appended_NotCommitted(stored, df) == stored

\* to_sql(..., if_exists='append'): the rows join those already stored
Appended(stored, df) == stored \o df

\* data_to_sql stores the frame: df.to_sql(table_name, engine, if_exists='append')
LoadStores ==
    /\ pc = "load"
    /\ LET table == data_table_pairs[i]
       IN  /\ ~ConstraintError(table, data[table], db)
           /\ db' = [db EXCEPT ![table] = Appended(@, data[table])]
           /\ attempts' = Append(attempts, table)
           /\ log' = Append(log, Info("Inserted data into table.", table))
    /\ i' = i + 1
    /\ pc' = AfterLoad(i + 1, raised)
    /\ UNCHANGED <<titles, credits, data, exists, view, raised, files, faults>>
    /\ UNCHANGED <<norm, api>>

\* the insert violates a key: except exc.SQLAlchemyError logs it, the loop goes on
LoadViolates ==
    /\ pc = "load"
    /\ LET table == data_table_pairs[i]
       IN  /\ ConstraintError(table, data[table], db)
           /\ raised' = [raised EXCEPT ![table] = "IntegrityError"]
           /\ attempts' = Append(attempts, table)
           /\ log' = Append(log, Error("Error inserting data into table", table))
    /\ i' = i + 1
    /\ pc' = AfterRaise(i + 1, raised')
    /\ UNCHANGED <<titles, credits, data, exists, db, view, files, faults>>
    /\ UNCHANGED <<norm, api>>

\* the database fails the insert for a reason outside the data (a lost
\* connection, a timeout): a SQLAlchemyError too
LoadDbFault ==
    /\ pc = "load"
    /\ MayFault
    /\ faults' = faults + 1
    /\ LET table == data_table_pairs[i]
       IN  /\ raised' = [raised EXCEPT ![table] = "OperationalError"]
           /\ attempts' = Append(attempts, table)
           /\ log' = Append(log, Error("Error inserting data into table", table))
    /\ i' = i + 1
    /\ pc' = AfterRaise(i + 1, raised')
    /\ UNCHANGED <<titles, credits, data, exists, db, view, files>>
    /\ UNCHANGED <<norm, api>>

\* to_sql raises an error that is no SQLAlchemyError: the inner except does
\* not catch it, the outer handler ends the run
LoadOtherError ==
    /\ pc = "load"
    /\ MayFault
    /\ faults' = faults + 1
    /\ LET table == data_table_pairs[i]
       IN  /\ raised' = [raised EXCEPT ![table] = "Exception"]
           /\ attempts' = Append(attempts, table)
    /\ Fatal
    /\ UNCHANGED <<titles, credits, data, exists, db, view, i, files>>
    /\ UNCHANGED <<norm, api>>

\* create_view(engine): CREATE VIEW raises when the view is already defined
CreateView ==
    /\ pc = "view"
    /\ IF view
       THEN /\ Fatal
            /\ UNCHANGED view
       ELSE /\ view' = TRUE
            /\ log' = Append(log, Info("View created successfully.", ""))
            /\ pc' = "dispose"
    /\ UNCHANGED <<titles, credits, data, exists, db, i, attempts, raised, files, faults>>
    /\ UNCHANGED <<norm, api>>

Dispose ==
    /\ pc = "dispose"
    /\ log' = Append(log, Info("Database connection closed and resources disposed.", ""))
    /\ pc' = "finally"
    /\ UNCHANGED <<titles, credits, data, exists, db, view, i, attempts, raised, files, faults>>
    /\ UNCHANGED <<norm, api>>

\* finally: logging.shutdown()
Shutdown ==
    /\ pc = "finally"
    /\ pc' = "exit"
    /\ UNCHANGED <<titles, credits, data, exists, db, view, i, attempts, raised, log, files, faults>>
    /\ UNCHANGED <<norm, api>>

\* the script is run again, on the same files, against the database as it is
Rerun ==
    /\ pc = "exit"
    /\ pc' = "config"
    /\ titles' = <<>>
    /\ credits' = <<>>
    /\ data' = NoData
    /\ i' = 0
    /\ attempts' = <<>>
    /\ raised' = NoneRaised
    /\ log' = <<>>
    /\ UNCHANGED <<exists, db, view, files, faults>>
    /\ UNCHANGED <<norm, api>>

\* a request number without a request
Idle == [phase |-> "idle", call |-> <<>>, session |-> 0, response |-> <<>>]

\* the serving layer is not running
NoApi ==
    /\ req = [r \in 1..MaxRequests |-> Idle]
    /\ sessions = {}
    /\ created = 0
    /\ predictions = <<>>
    /\ clock = 0

\* no cell is normalised apart from the run
NoCell ==
    /\ cellNames = <<>>
    /\ cellKind = "list"
    /\ cellTokens = <<>>
    /\ cellDone = FALSE

Init ==
    /\ pc = "config"
    /\ files \in {[titles |-> t, credits |-> c] : t \in RunTitleInputs, c \in RunCreditInputs}
    /\ titles = <<>>
    /\ credits = <<>>
    /\ data = NoData
    /\ exists = FALSE
    /\ db = EmptyDb
    /\ view = FALSE
    /\ i = 0
    /\ attempts = <<>>
    /\ raised = NoneRaised
    /\ log = <<>>
    /\ faults = 0
    /\ NoCell
    /\ NoApi

Next ==
    \/ Config
    \/ CreateEngine
    \/ EnsureDatabase
    \/ ReadTitles
    \/ ReadCredits
    \/ CreateAll
    \/ Transform
    \/ LoadStores
    \/ LoadViolates
    \/ LoadDbFault
    \/ LoadOtherError
    \/ CreateView
    \/ Dispose
    \/ Shutdown
    \/ Rerun

Spec == Init /\ [][Next]_vars

\* the extractors alone, applied to every enumerated source table
InitExtract ==
    /\ pc = "transform"
    /\ \/ titles \in ExtractTitleInputs /\ credits = <<>>
       \/ titles = <<>> /\ credits \in ExtractCreditInputs
    /\ files = [titles |-> titles, credits |-> credits]
    /\ data = NoData
    /\ exists = TRUE
    /\ db = EmptyDb
    /\ view = FALSE
    /\ i = 0
    /\ attempts = <<>>
    /\ raised = NoneRaised
    /\ log = <<>>
    /\ faults = 0
    /\ NoCell
    /\ NoApi

SpecExtract == InitExtract /\ [][Transform]_vars

\* Runs over a titles file in which the type tag of a row disagrees with the
\* prefix of its id: nothing in the files ties the two columns together.
MistypedTitleRows ==
    {TitleRow(r[1], r[2], ListField(<<Drama, Comedy, Action>>), ListField(<<US>>), TRUE) :
        r \in {<<ts1, "MOVIE">>, <<tm1, "SHOW">>}}

MistypedTitleInputs ==
    {t \in SeqsUpTo(RunTitleRows \cup MistypedTitleRows, MaxRunTitles) :
        UniqueIds(t) /\ \E k \in 1..Len(t) : t[k] \in MistypedTitleRows}

InitMistyped ==
    /\ pc = "config"
    /\ files \in {[titles |-> t, credits |-> c] :
                    t \in MistypedTitleInputs, c \in RunCreditInputs}
    /\ titles = <<>>
    /\ credits = <<>>
    /\ data = NoData
    /\ exists = FALSE
    /\ db = EmptyDb
    /\ view = FALSE
    /\ i = 0
    /\ attempts = <<>>
    /\ raised = NoneRaised
    /\ log = <<>>
    /\ faults = 0
    /\ NoCell
    /\ NoApi

SpecMistyped == InitMistyped /\ [][Next]_vars

\* The list normalisation on its own: one cell of a list column, written from
\* a list of names the way the source file holds it, is stripped, split and
\* exploded as the extractors do it.
CellNames == {Drama, Comedy, OBrien, Part2, LoveWar, JekyllHyde}

\* the text of the cell; an empty cell of the character column is read as NaN
CellOf(column, list) ==
    IF column = "list" THEN ListField(list)
    ELSE IF list = <<>> THEN NaN ELSE CharacterField(list)

SepOf(column) == IF column = "list" THEN CommaSep ELSE SlashSep

Normalize ==
    /\ pc = "normalize"
    /\ ~cellDone
    /\ cellTokens' = ExplodeCell(CellOf(cellKind, cellNames), SepOf(cellKind))
    /\ cellDone' = TRUE
    /\ UNCHANGED <<cellNames, cellKind>>
    /\ UNCHANGED <<pc, titles, credits, data, exists, db, view, i, attempts,
                   raised, log, files, faults>>
    /\ UNCHANGED api

InitNormalize ==
    /\ pc = "normalize"
    /\ cellNames \in SeqsUpTo(CellNames, MaxNames)
    /\ cellKind \in {"list", "character"}
    /\ cellTokens = <<>>
    /\ cellDone = FALSE
    /\ titles = <<>>
    /\ credits = <<>>
    /\ files = [titles |-> titles, credits |-> credits]
    /\ data = NoData
    /\ exists = TRUE
    /\ db = EmptyDb
    /\ view = FALSE
    /\ i = 0
    /\ attempts = <<>>
    /\ raised = NoneRaised
    /\ log = <<>>
    /\ faults = 0
    /\ NoApi

SpecNormalize == InitNormalize /\ [][Normalize]_vars

---------------------------------------------------------------------------
(* The serving layer of src/api: the queries of crud.py.                   *)

\* lower(text)
Lower(text) ==
    LET UpperCase ==
            <<"A", "B", "C", "D", "E", "F", "G", "H", "I", "J", "K", "L", "M",
              "N", "O", "P", "Q", "R", "S", "T", "U", "V", "W", "X", "Y", "Z">>
        LowerCase ==
            <<"a", "b", "c", "d", "e", "f", "g", "h", "i", "j", "k", "l", "m",
              "n", "o", "p", "q", "r", "s", "t", "u", "v", "w", "x", "y", "z">>
        LowerChar(c) ==
            IF \E k \in 1..Len(UpperCase) : UpperCase[k] = c
            THEN LowerCase[CHOOSE k \in 1..Len(UpperCase) : UpperCase[k] = c]
            ELSE c
    IN  [k \in 1..Len(text) |-> LowerChar(text[k])]

\* text LIKE pattern: % stands for any run of characters, _ for any one
RECURSIVE Like(_, _)
Like(text, pattern) ==
    IF pattern = <<>> THEN text = <<>>
    ELSE IF Head(pattern) = "%"
         THEN \/ Like(text, Tail(pattern))
              \/ text # <<>> /\ Like(Tail(text), pattern)
         ELSE /\ text # <<>>
              /\ Head(pattern) = "_" \/ Head(pattern) = Head(text)
              /\ Like(Tail(text), Tail(pattern))

\* column.ilike(f"%{value}%"); a NULL column matches no pattern
ILike(column, value) ==
    /\ ~IsNaN(column)
    /\ Like(Lower(column), Lower(<<"%">> \o value \o <<"%">>))

\* the filters of one call: every parameter is the empty set where the
\* caller left it out (None) and holds the one value given otherwise
NoFilter ==
    [media_type |-> {}, title |-> {}, release_year |-> {}, age_certification |-> {},
     genre |-> {}, country |-> {}, director |-> {}, actor |-> {}, character |-> {},
     imdb_score |-> {}, imdb_votes |-> {}]

\* the chain of query.filter calls of get_media on one row of the view
MediaMatches(row, f) ==
    /\ \A c \in {"media_type", "title", "genre", "country", "director", "actor",
                  "character"} :
          \A value \in f[c] : ILike(row[c], value)
    /\ \A value \in f.release_year :
          row.release_year # NaNInt /\ row.release_year = value
    /\ \A value \in f.age_certification :
          ~IsNaN(row.age_certification) /\ row.age_certification = value
    /\ \A value \in f.imdb_score : row.imdb_score # NaNInt /\ row.imdb_score > value
    /\ \A value \in f.imdb_votes : row.imdb_votes # NaNInt /\ row.imdb_votes > value

\* query.offset(skip).limit(limit).all()
OffsetLimit(rows, skip, limit) ==
    SubSeq(rows, skip + 1, IF skip + limit <= Len(rows) THEN skip + limit ELSE Len(rows))

\* the columns a response model keeps of a row
Project(row, columns) == [c \in columns |-> row[c]]

MovieBase == {"movie_id", "title", "release_year", "age_certification", "runtime"}
ShowBase == {"show_id", "title", "release_year", "age_certification", "runtime", "seasons"}
MovieShow ==
    {"media_type", "movie_id", "show_id", "title", "release_year", "age_certification",
     "runtime", "genre", "country", "director", "actor", "character",
     "imdb_score", "imdb_votes"}
PredictionAdd == {"user_id", "prediction_value"}
PredictionResponse == {"user_id", "prediction_value", "index", "timestamp"}

Records(rows, columns) == [k \in 1..Len(rows) |-> Project(rows[k], columns)]

\* the rows of the view as the mapped class MoviesAndShowsView yields them,
\* the media_type as the text it is
MoviesAndShowsView(database) ==
    LET rows == movies_and_shows_view(database)
    IN  [k \in 1..Len(rows) |->
            [rows[k] EXCEPT !.media_type =
                IF @ = "movie" THEN <<"m", "o", "v", "i", "e">>
                ELSE <<"s", "h", "o", "w">>]]

\* get_movies, get_shows and get_media over the rows in the order in which
\* the database returns them
get_movies(rows, skip, limit) == Records(OffsetLimit(rows, skip, limit), MovieBase)
get_shows(rows, skip, limit) == Records(OffsetLimit(rows, skip, limit), ShowBase)
get_media(rows, f, skip, limit) ==
    Records(OffsetLimit(SelectSeq(rows, LAMBDA row : MediaMatches(row, f)), skip, limit),
            MovieShow)

\* the orders in which a query without ORDER BY may return the rows
RowOrders(rows) ==
    {[k \in 1..Len(rows) |-> rows[p[k]]] :
        p \in {q \in [1..Len(rows) -> 1..Len(rows)] :
                 \A j, k \in 1..Len(rows) : q[j] = q[k] => j = k}}

---------------------------------------------------------------------------
(* The serving layer of src/api: requests, each with its own session.      *)

DefaultLimit == 100

\* the files the served database was loaded from: a rated movie with an
\* actor and a director, a later movie and a show without credits, the
\* show without certification and rating
ApiTitles ==
    <<TitleRow(tm1, "MOVIE", ListField(<<Drama>>), ListField(<<US>>), TRUE),
      [TitleRow(<<"t", "m", "2">>, "MOVIE", ListField(<<Comedy>>), ListField(<<GB>>), TRUE)
          EXCEPT !.release_year = 2001],
      [TitleRow(ts1, "SHOW", ListField(<<Comedy>>), ListField(<<US>>), FALSE)
          EXCEPT !.age_certification = NaN]>>
ApiCredits ==
    <<CreditRow(tm1, 1, NameOf(1), "ACTOR", CharacterField(<<Tony>>)),
      CreditRow(tm1, 2, NameOf(2), "DIRECTOR", NaN)>>

Call(endpoint, f, skip, limit, user_id, prediction_value) ==
    [endpoint |-> endpoint, f |-> f, skip |-> skip, limit |-> limit,
     user_id |-> user_id, prediction_value |-> prediction_value]

\* the requests clients send: each list, the media under a filter, a
\* submission, and the stored predictions
ApiCalls ==
    {Call("read_movies", NoFilter, 0, DefaultLimit, <<>>, 0),
     Call("read_shows", NoFilter, 0, DefaultLimit, <<>>, 0),
     Call("read_media", [NoFilter EXCEPT !.genre = {<<"d">>}], 0, DefaultLimit, <<>>, 0),
     Call("get_predictions", NoFilter, 0, 0, <<>>, 0),
     Call("submit_prediction", NoFilter, 0, 0, <<"u">>, 1)}

\* the request r is in its handler, which is the endpoint
Handling(r, endpoint) ==
    /\ pc = "serve"
    /\ req[r].phase = "handler"
    /\ req[r].call.endpoint = endpoint
    /\ req[r].session \in sessions

\* the handler returns; FastAPI renders what it returned
Return(r, response) ==
    req' = [req EXCEPT ![r].phase = "returned", ![r].response = response]

\* get_db up to its yield: a session of SessionLocal for this request
Receive(r, call) ==
    /\ pc = "serve"
    /\ req[r].phase = "idle"
    /\ \A q \in 1..(r - 1) : req[q].phase # "idle"
    /\ created' = created + 1
    /\ sessions' = sessions \cup {created + 1}
    /\ req' = [req EXCEPT ![r] = [phase |-> "handler", call |-> call,
                                  session |-> created + 1, response |-> <<>>]]
    /\ UNCHANGED <<pc, titles, credits, data, exists, db, view, i, attempts, raised,
                   log, files, faults, predictions, clock>>
    /\ UNCHANGED norm

read_movies(r) ==
    /\ Handling(r, "read_movies")
    /\ \E rows \in RowOrders(db["movies"]) :
          Return(r, get_movies(rows, req[r].call.skip, req[r].call.limit))
    /\ UNCHANGED <<pc, titles, credits, data, exists, db, view, i, attempts, raised,
                   log, files, faults, sessions, created, predictions, clock>>
    /\ UNCHANGED norm

read_shows(r) ==
    /\ Handling(r, "read_shows")
    /\ \E rows \in RowOrders(db["shows"]) :
          Return(r, get_shows(rows, req[r].call.skip, req[r].call.limit))
    /\ UNCHANGED <<pc, titles, credits, data, exists, db, view, i, attempts, raised,
                   log, files, faults, sessions, created, predictions, clock>>
    /\ UNCHANGED norm

read_media(r) ==
    /\ Handling(r, "read_media")
    /\ view
    /\ \E rows \in RowOrders(MoviesAndShowsView(db)) :
          Return(r, get_media(rows, req[r].call.f, req[r].call.skip, req[r].call.limit))
    /\ UNCHANGED <<pc, titles, credits, data, exists, db, view, i, attempts, raised,
                   log, files, faults, sessions, created, predictions, clock>>
    /\ UNCHANGED norm

\* the index the predictions table gives the next row
AutoIncrement(rows) == IF rows = <<>> THEN 1 ELSE rows[Len(rows)].index + 1

\* models.Predictions(user_id, prediction_value), as db.refresh reads it back
Predictions(rows, user_id, prediction_value, now) ==
    [index |-> AutoIncrement(rows), timestamp |-> now, user_id |-> user_id,
     prediction_value |-> prediction_value]

\* db.add and db.commit
Commit_Replace(rows, row) == <<row>>
Commit(rows, row) == Append(rows, row)

submit_prediction(r) ==
    /\ Handling(r, "submit_prediction")
    /\ LET db_prediction ==
               Predictions(predictions, req[r].call.user_id,
                           req[r].call.prediction_value, clock)
       IN  /\ predictions' = Commit(predictions, db_prediction)
           /\ Return(r, Project(db_prediction, PredictionAdd))
    /\ UNCHANGED <<pc, titles, credits, data, exists, db, view, i, attempts, raised,
                   log, files, faults, sessions, created, clock>>
    /\ UNCHANGED norm

get_predictions(r) ==
    /\ Handling(r, "get_predictions")
    /\ \E rows \in RowOrders(predictions) :
          Return(r, Records(rows, PredictionResponse))
    /\ UNCHANGED <<pc, titles, credits, data, exists, db, view, i, attempts, raised,
                   log, files, faults, sessions, created, predictions, clock>>
    /\ UNCHANGED norm

\* the database fails under a handler, which raises before anything is
\* committed
Raise(r) ==
    /\ pc = "serve"
    /\ req[r].phase = "handler"
    /\ MayFault
    /\ faults' = faults + 1
    /\ req' = [req EXCEPT ![r].phase = "raised"]
    /\ UNCHANGED <<pc, titles, credits, data, exists, db, view, i, attempts, raised,
                   log, files, sessions, created, predictions, clock>>
    /\ UNCHANGED norm

\* whether get_db closes the session of a request that ended in this phase
Closes_OnReturn(phase) == phase = "returned"
Closes(phase) == TRUE

\* get_db after its yield: finally db.close(); the response has been sent
\* and nothing of the request is kept but the session it had
Close(r) ==
    /\ pc = "serve"
    /\ req[r].phase \in {"returned", "raised"}
    /\ sessions' = IF Closes(req[r].phase) THEN sessions \ {req[r].session} ELSE sessions
    /\ req' = [req EXCEPT ![r] = [Idle EXCEPT !.phase = "closed",
                                              !.session = req[r].session]]
    /\ UNCHANGED <<pc, titles, credits, data, exists, db, view, i, attempts, raised,
                   log, files, faults, created, predictions, clock>>
    /\ UNCHANGED norm

\* time passes
Tick ==
    /\ pc = "serve"
    /\ clock < MaxClock
    /\ clock' = clock + 1
    /\ UNCHANGED <<pc, titles, credits, data, exists, db, view, i, attempts, raised,
                   log, files, faults, req, sessions, created, predictions>>
    /\ UNCHANGED norm

\* the pipeline has loaded the database and created the view; main.py is
\* imported and serves
InitApi ==
    /\ pc = "serve"
    /\ files = [titles |-> ApiTitles, credits |-> ApiCredits]
    /\ titles = <<>>
    /\ credits = <<>>
    /\ data = NoData
    /\ exists = TRUE
    /\ db = Transformed(ApiTitles, ApiCredits)
    /\ view = TRUE
    /\ i = 0
    /\ attempts = <<>>
    /\ raised = NoneRaised
    /\ log = <<>>
    /\ faults = 0
    /\ NoCell
    /\ NoApi

NextApi ==
    \/ \E r \in 1..MaxRequests, call \in ApiCalls : Receive(r, call)
    \/ \E r \in 1..MaxRequests : read_movies(r)
    \/ \E r \in 1..MaxRequests : read_shows(r)
    \/ \E r \in 1..MaxRequests : read_media(r)
    \/ \E r \in 1..MaxRequests : submit_prediction(r)
    \/ \E r \in 1..MaxRequests : get_predictions(r)
    \/ \E r \in 1..MaxRequests : Raise(r)
    \/ \E r \in 1..MaxRequests : Close(r)
    \/ Tick

SpecApi == InitApi /\ [][NextApi]_vars

---------------------------------------------------------------------------
(* The list queries alone: requests of one filter, page by page.           *)

\* NoFilter with the one parameter given
Only(c, value) == [NoFilter EXCEPT ![c] = {value}]

\* filters on every parameter: in either case, matching some rows, every
\* row and none, on the characters % and _, and two filters at once
QueryFilters ==
    {NoFilter,
     Only("media_type", <<"m", "o", "v", "i", "e">>),
     Only("media_type", <<"S", "H", "O", "W">>),
     Only("media_type", <<"o">>),
     Only("title", <<"n", "t", "m">>),
     Only("title", <<"t", "m", "2">>),
     Only("title", <<"N", "t", "x">>),
     Only("release_year", 2000),
     Only("release_year", 2001),
     Only("release_year", 1999),
     Only("age_certification", <<"R">>),
     Only("age_certification", <<"P", "G">>),
     Only("genre", <<"d">>),
     Only("genre", <<"C">>),
     Only("genre", <<"x">>),
     Only("genre", <<"_">>),
     Only("genre", <<"%">>),
     Only("country", <<"u", "s">>),
     Only("country", <<"G">>),
     Only("director", <<"q">>),
     Only("actor", <<"P">>),
     Only("actor", <<"q">>),
     Only("character", <<"t">>),
     Only("imdb_score", 6),
     Only("imdb_score", 7),
     Only("imdb_votes", 99),
     Only("imdb_votes", 100),
     [NoFilter EXCEPT !.genre = {<<"c">>}, !.media_type = {<<"s", "h", "o", "w">>}],
     [NoFilter EXCEPT !.release_year = {2000}, !.imdb_score = {6}],
     [NoFilter EXCEPT !.actor = {<<"p">>}, !.genre = {<<"c">>}]}

\* each filter with the default page, and the lists page by page
QueryCalls ==
    {Call("read_media", f, 0, DefaultLimit, <<>>, 0) : f \in QueryFilters}
    \cup {Call("read_media", NoFilter, 0, 2, <<>>, 0),
          Call("read_media", NoFilter, 2, 2, <<>>, 0),
          Call("read_movies", NoFilter, 0, 1, <<>>, 0),
          Call("read_movies", NoFilter, 1, 1, <<>>, 0),
          Call("read_movies", NoFilter, 0, DefaultLimit, <<>>, 0),
          Call("read_shows", NoFilter, 0, DefaultLimit, <<>>, 0),
          Call("read_shows", NoFilter, 1, 1, <<>>, 0)}

\* requests of one endpoint and one filter have been received, each with
\* its session, over the database the pipeline loaded
InitQuery ==
    /\ pc = "serve"
    /\ files = [titles |-> ApiTitles, credits |-> ApiCredits]
    /\ titles = <<>>
    /\ credits = <<>>
    /\ data = NoData
    /\ exists = TRUE
    /\ db = Transformed(ApiTitles, ApiCredits)
    /\ view = TRUE
    /\ i = 0
    /\ attempts = <<>>
    /\ raised = NoneRaised
    /\ log = <<>>
    /\ faults = 0
    /\ NoCell
    /\ req \in {[r \in 1..MaxRequests |->
                   [phase |-> "handler", call |-> calls[r], session |-> r,
                    response |-> <<>>]] :
                calls \in {cs \in [1..MaxRequests -> QueryCalls] :
                             \A r, q \in 1..MaxRequests :
                                /\ cs[r].endpoint = cs[q].endpoint
                                /\ cs[r].f = cs[q].f}}
    /\ sessions = 1..MaxRequests
    /\ created = MaxRequests
    /\ predictions = <<>>
    /\ clock = 0

NextQuery ==
    \/ \E r \in 1..MaxRequests : read_movies(r)
    \/ \E r \in 1..MaxRequests : read_shows(r)
    \/ \E r \in 1..MaxRequests : read_media(r)

SpecQuery == InitQuery /\ [][NextQuery]_vars

---------------------------------------------------------------------------
(* Properties of the extractors (checked under SpecExtract).               *)

Keys(rows, col) == {rows[k][col] : k \in 1..Len(rows)}
Count(rows, P(_)) == Len(SelectSeq(rows, P))
Max(a, b) == IF a >= b THEN a ELSE b

BridgeTables ==
    {"genres_bridge", "production_countries_bridge", "actors_bridge",
     "directors_bridge", "characters_bridge"}

\* the source table a bridge set is extracted from
SourceOf(table) ==
    IF table \in {"genres_bridge", "production_countries_bridge"} THEN titles ELSE credits

\* C1: every row of every bridge set carries exactly one of movie_id and
\* show_id; it is the id of a source row, in movie_id where the id has the
\* movie prefix 'tm', in show_id where it has the show prefix 'ts'.
C1_ExactlyOneTitleKey ==
    \A b \in BridgeTables : \A k \in 1..Len(data[b]) :
        LET r == data[b][k]
        IN  \/ /\ ~IsNaN(r.movie_id) /\ IsNaN(r.show_id)
               /\ StartsWith(r.movie_id, MoviePrefix)
               /\ r.movie_id \in Keys(SourceOf(b), "id")
            \/ /\ IsNaN(r.movie_id) /\ ~IsNaN(r.show_id)
               /\ StartsWith(r.show_id, ShowPrefix)
               /\ r.show_id \in Keys(SourceOf(b), "id")

\* a run of the extractors that produced link rows of a movie and of a show
C1_Witness ==
    \/ /\ tm1 \in Keys(data["genres_bridge"], "movie_id")
       /\ ts1 \in Keys(data["genres_bridge"], "show_id")
    \/ /\ tm1 \in Keys(data["characters_bridge"], "movie_id")
       /\ ts1 \in Keys(data["actors_bridge"], "show_id")

\* the ids a bridge set carries, in movie_id or in show_id
LinkedIds(table) == Keys(data[table], "movie_id") \cup Keys(data[table], "show_id")

\* every source row of this id holds a null or empty list in Cell
OnlyEmpty(rows, id, col) ==
    \A k \in 1..Len(rows) :
        rows[k].id = id => rows[k][col] \in {NaN, ListField(<<>>)}

\* C2: a title (or credit) whose genre, country or character field is null
\* or an empty list yields no bridge row of that type carrying its id, and
\* no entity row whose name is null or empty.
C2_NoRowForEmptyList ==
    pc = "load" =>
        /\ \A k \in 1..Len(titles) :
              /\ OnlyEmpty(titles, titles[k].id, GenresCell)
                    => titles[k].id \notin LinkedIds("genres_bridge")
              /\ OnlyEmpty(titles, titles[k].id, CountriesCell)
                    => titles[k].id \notin LinkedIds("production_countries_bridge")
        /\ \A k \in 1..Len(credits) :
              OnlyEmpty(credits, credits[k].id, CharacterCell)
                    => credits[k].id \notin LinkedIds("characters_bridge")
        /\ Keys(data["genres"], "genre") \cap {NaN, <<>>} = {}
        /\ Keys(data["production_countries"], "country") \cap {NaN, <<>>} = {}
        /\ Keys(data["characters"], "character") \cap {NaN, <<>>} = {}

\* C9: the entity key of every bridge row is the key of a row of the entity
\* set the same extractor produced.
C9_BridgeKeysExist ==
    /\ Keys(data["genres_bridge"], "genre_id") \subseteq Keys(data["genres"], "genre_id")
    /\ Keys(data["production_countries_bridge"], "country_id")
          \subseteq Keys(data["production_countries"], "country_id")
    /\ Keys(data["characters_bridge"], "character_id")
          \subseteq Keys(data["characters"], "character_id")
    /\ Keys(data["actors_bridge"], "actor_id") \subseteq Keys(data["actors"], "actor_id")
    /\ Keys(data["directors_bridge"], "director_id")
          \subseteq Keys(data["directors"], "director_id")

\* link rows of a null list field and of a named genre, both with their entity row
C9_Witness ==
    /\ Len(data["genres_bridge"]) >= 3
    /\ NaN \in Keys(data["genres"], "genre")
    /\ Drama \in Keys(data["genres"], "genre")

\* the values of a list column in reading order: row by row, token by token
ValuesRead(rows, col, sep) ==
    LET e == ExplodeRows(rows, col, sep) IN [k \in 1..Len(e) |-> e[k].value]

FirstAt(values, v) == CHOOSE k \in 1..Len(values) :
    values[k] = v /\ \A j \in 1..(k - 1) : values[j] # v

\* the rows of an entity set are numbered 1..k, hold k distinct names, the
\* names read, and stand in the order in which the names are first read
DenseFirstSeen(rows, idcol, namecol, values) ==
    /\ \A k \in 1..Len(rows) : rows[k][idcol] = k
    /\ \A j, k \in 1..Len(rows) : rows[j][namecol] = rows[k][namecol] => j = k
    /\ Keys(rows, namecol) = Range(values)
    /\ \A j, k \in 1..Len(rows) :
          j < k => FirstAt(values, rows[j][namecol]) < FirstAt(values, rows[k][namecol])

InsertAt(rows, j, row) == SubSeq(rows, 1, j - 1) \o <<row>> \o SubSeq(rows, j, Len(rows))

\* the inputs that hold the rows of the input and one of them a second time
Duplicated(rows) ==
    {InsertAt(rows, j, rows[k]) : k \in 1..Len(rows), j \in 1..(Len(rows) + 1)}

SameEntitySet(a, b, namecol) ==
    /\ Len(a) = Len(b)
    /\ Keys(a, namecol) = Keys(b, namecol)

\* C12: the Genre, Country and Character sets (their names and their count)
\* are the same when the extractor is run on the input with any one of its
\* source rows repeated anywhere in it as when it is run on the input.
C12_DedupeIdempotent ==
    pc = "load" =>
        /\ \A t \in Duplicated(titles) :
              /\ SameEntitySet(transform_genres(t).genres, data["genres"], "genre")
              /\ SameEntitySet(transform_production_countries(t).production_countries,
                               data["production_countries"], "country")
        /\ \A c \in Duplicated(credits) :
              SameEntitySet(transform_characters(c).characters,
                            data["characters"], "character")

\* the input holds a row twice, apart, and the set holds each name once
C12_Witness ==
    /\ pc = "load"
    /\ Len(titles) = 2
    /\ titles[1] = titles[2]
    /\ titles[1].genres = ListField(<<Drama, Comedy>>)
    /\ Len(data["genres"]) = 2

\* the rows of a bridge set that carry the id, in the order of the set
RowsOf(table, id) ==
    SelectSeq(data[table], LAMBDA r : r.movie_id = id \/ r.show_id = id)

\* the only source row with its id
OnlyRowOf(rows, k) == \A j \in 1..Len(rows) : rows[j].id = rows[k].id => j = k

\* C13: a title whose genre list holds k names has exactly k rows in the
\* genre bridge set, in list order, the i-th of them referencing the genre
\* whose name is the i-th name of the list; and no name stands twice in the
\* Genre set.
C13_BridgeRowPerListedGenre ==
    pc = "load" =>
        /\ \A j, k \in 1..Len(data["genres"]) :
              data["genres"][j].genre = data["genres"][k].genre => j = k
        /\ \A k \in 1..Len(titles) : \A list \in GenreLists :
              (titles[k].genres = ListField(list) /\ OnlyRowOf(titles, k)) =>
                  LET rows == RowsOf("genres_bridge", titles[k].id)
                  IN  /\ Len(rows) = Len(list)
                      /\ \A n \in 1..Len(rows) :
                            [genre_id |-> rows[n].genre_id, genre |-> list[n]]
                                \in Range(data["genres"])

\* the only ACTOR credit of its person for its title
OnlyCreditOf(rows, k) ==
    \A j \in 1..Len(rows) :
        (/\ rows[j].role = "ACTOR"
         /\ rows[j].id = rows[k].id
         /\ rows[j].person_id = rows[k].person_id) => j = k

\* C14: an actor credit whose character field holds several names separated
\* by ' / ' has one row in the character bridge set per name; the rows carry
\* the title id and the actor_id of the credit and reference as many
\* distinct characters of the Character set as the field holds names.
C14_BridgeRowPerCharacter ==
    pc = "load" =>
        \A k \in 1..Len(credits) : \A list \in CharacterLists :
            (/\ credits[k].role = "ACTOR"
             /\ Len(list) > 1
             /\ credits[k].character = CharacterField(list)
             /\ OnlyCreditOf(credits, k)) =>
                LET rows == SelectSeq(RowsOf("characters_bridge", credits[k].id),
                                      LAMBDA r : r.actor_id = credits[k].person_id)
                IN  /\ Len(rows) = Len(list)
                    /\ Cardinality(Keys(rows, "character_id")) = Len(list)
                    /\ Keys(rows, "character_id")
                          \subseteq Keys(data["characters"], "character_id")

\* a credit of two names has its two rows, after the row of another credit
C14_Witness ==
    /\ pc = "load"
    /\ Len(credits) = 2
    /\ credits[1].role = "ACTOR" /\ credits[1].character = CharacterField(<<Iron>>)
    /\ credits[2].role = "ACTOR" /\ credits[2].character = CharacterField(<<Tony, Iron>>)
    /\ credits[1].id # credits[2].id
    /\ Len(RowsOf("characters_bridge", credits[2].id)) = 2

\* the source row holds an imdb id, an imdb score or an imdb vote count
HasRatingData(row) ==
    ~IsNaN(row.imdb_id) \/ row.imdb_score # NaNInt \/ row.imdb_votes # NaNInt

\* C16: the RatingInfo set holds exactly one row for each source title (a
\* movie or a show) that has rating data (an imdb id, score or vote count)
\* and no row for a title that has none.
C16_RatingRowIffRatingData ==
    pc = "load" =>
        \A k \in 1..Len(titles) :
            (OnlyRowOf(titles, k) /\ titles[k].type \in {"MOVIE", "SHOW"}) =>
                Len(RowsOf("imdb_info", titles[k].id))
                    = IF HasRatingData(titles[k]) THEN 1 ELSE 0

MovieColumns == {"index", "movie_id", "title", "release_year", "age_certification", "runtime"}
ShowColumns ==
    {"index", "show_id", "title", "release_year", "age_certification", "runtime", "seasons"}

\* the rows of the set are the source rows given, in their order, numbered
\* from 1, each with the columns given and the values of its source row
SplitOf(rows, sel, key, columns) ==
    /\ Len(rows) = Len(sel)
    /\ \A k \in 1..Len(rows) :
          /\ DOMAIN rows[k] = columns
          /\ rows[k].index = k
          /\ rows[k][key] = sel[k].id
          /\ \A c \in columns \ {"index", key} : rows[k][c] = sel[k][c]

\* C17: the Movies set holds exactly the source rows of type MOVIE and the
\* Shows set exactly those of type SHOW, each in source order and numbered
\* 1..n; Movies has no season count, neither set has the raw genre and
\* country lists, the type or the rating fields; and where the source ids
\* are unique the two sets share no title id.
C17_SplitByType ==
    pc = "load" =>
        /\ SplitOf(data["movies"], SelectSeq(titles, LAMBDA r : r.type = "MOVIE"),
                   "movie_id", MovieColumns)
        /\ SplitOf(data["shows"], SelectSeq(titles, LAMBDA r : r.type = "SHOW"),
                   "show_id", ShowColumns)
        /\ UniqueIds(titles) =>
              Keys(data["movies"], "movie_id") \cap Keys(data["shows"], "show_id") = {}

\* a movie that follows a show in the source is movie 1
C17_Witness ==
    /\ pc = "load"
    /\ Len(titles) = 2
    /\ titles[1].type = "SHOW" /\ titles[2].type = "MOVIE"
    /\ titles[1].id # titles[2].id
    /\ Len(data["movies"]) = 1 /\ data["movies"][1].index = 1
    /\ Len(data["shows"]) = 1 /\ data["shows"][1].seasons = 2

\* no two rows of the set hold the same value in the column
IsKey(rows, col) == \A j, k \in 1..Len(rows) : rows[j][col] = rows[k][col] => j = k

\* C26: actor_id is a key of the Actors set and director_id a key of the
\* Directors set: no two rows of either set carry the same person id, also
\* where the credits give one person_id two different names.
C26_PersonIdIsKey ==
    pc = "load" =>
        /\ IsKey(data["actors"], "actor_id")
        /\ IsKey(data["directors"], "director_id")

\* the ids a set of the run holds in the column, the null apart
IdsIn(table, col) == Keys(data[table], col) \ {NaN}

TitleLinked == BridgeTables \cup {"imdb_info"}

\* C27: every non-null movie_id of a bridge or RatingInfo row of a run is the
\* movie_id of a row of the Movies set of that run, and every non-null
\* show_id the show_id of a row of the Shows set (stated of the rows drawn
\* from a titles source whose rows are all of type MOVIE or SHOW).
C27_LinksReferToSplit ==
    (/\ pc = "load"
     /\ credits = <<>>
     /\ \A k \in 1..Len(titles) : titles[k].type \in {"MOVIE", "SHOW"}) =>
        \A b \in TitleLinked :
            /\ IdsIn(b, "movie_id") \subseteq Keys(data["movies"], "movie_id")
            /\ IdsIn(b, "show_id") \subseteq Keys(data["shows"], "show_id")

---------------------------------------------------------------------------
(* Properties of the pipeline run (checked under Spec).                    *)

ViewCreated == Info("View created successfully.", "")
DbErrors == {"IntegrityError", "OperationalError"}
Stored(t) == Range(data[t]) \subseteq Range(db[t])

\* C3: if a row of the titles source has a type other than MOVIE and SHOW,
\* the run is aborted: no table load is attempted and no view is created.
C3_UnknownTypeAborts ==
    (\E k \in 1..Len(titles) : titles[k].type \notin {"MOVIE", "SHOW"})
        => /\ attempts = <<>>
           /\ pc \notin {"load", "view", "dispose"}
           /\ ~view

\* C4 as stated: no load failure stops the loader, so every run that reaches
\* the loader has attempted all thirteen tables when it ends.
C4_NoFailureStopsLoader ==
    (pc = "exit" /\ attempts # <<>>) => attempts = data_table_pairs

\* C4: the tables are attempted one at a time in the order of the list, each
\* at most once; a load that fails with a database error is logged with the
\* table name and the later tables are still attempted, so a run that reaches
\* the loader, and in which no load raises another kind of error, attempts
\* all thirteen tables.
C4_LoaderFailSoft ==
    /\ attempts = SubSeq(data_table_pairs, 1, Len(attempts))
    /\ \A t \in Tables :
          raised[t] \in DbErrors =>
              Error("Error inserting data into table", t) \in Range(log)
    /\ (/\ pc \in {"view", "dispose", "finally", "exit"}
        /\ attempts # <<>>
        /\ \A t \in Tables : raised[t] # "Exception")
          => attempts = data_table_pairs

\* a finished run in which the load of the first table failed and all thirteen
\* were attempted
C4_Witness ==
    /\ pc = "exit"
    /\ raised["movies"] \in DbErrors
    /\ attempts = data_table_pairs

C6_ViewAfterAllLoads ==
    /\ pc \in {"view", "dispose"} => attempts = data_table_pairs
    /\ \A k \in 1..Len(log) :
          log[k] = ViewCreated =>
              \A t \in Tables : \E j \in 1..(k - 1) : log[j].table = t

\* a run that defined the view
C6_Witness ==
    /\ pc = "dispose"
    /\ ViewCreated \in Range(log)

NoOtherMultiLink(id, key) ==
    LET Linked(x) == x[key] = id
    IN  /\ Count(db["production_countries_bridge"], Linked) <= 1
        /\ Count(db["directors_bridge"], Linked) <= 1
        /\ Count(db["imdb_info"], Linked) <= 1
        /\ \A k \in 1..Len(db["directors_bridge"]) :
              Linked(db["directors_bridge"][k]) =>
                  Count(db["directors"], LAMBDA d :
                      d.director_id = db["directors_bridge"][k].director_id) <= 1
        /\ \A k \in 1..Len(db["actors_bridge"]) :
              Linked(db["actors_bridge"][k]) =>
                  /\ Count(db["actors"], LAMBDA a :
                         a.actor_id = db["actors_bridge"][k].actor_id) <= 1
                  /\ Count(db["characters_bridge"], LAMBDA c :
                         Linked(c) /\ c.actor_id = db["actors_bridge"][k].actor_id) <= 1

\* the rows of the view v for each title of one side are F(N, M) for the N
\* actor links and M genre links of the title
ViewMultiplicity(v, side, key, F(_, _)) ==
    \A k \in 1..Len(db[side]) :
        LET id == db[side][k][key]
            Linked(x) == x[key] = id
        IN  (Count(db[side], Linked) = 1 /\ NoOtherMultiLink(id, key))
                => Count(v, Linked)
                      = F(Count(db["actors_bridge"], Linked),
                          Count(db["genres_bridge"], Linked))

Product(n, m) == n * m
LeftJoinProduct(n, m) == Max(n, 1) * Max(m, 1)

\* C8 as stated, of the runs in which every load succeeded: a title with N
\* actors and M genres and no other multi-valued link has exactly N * M rows
\* in the view.
C8_ProductOfCounts ==
    (view /\ \A t \in Tables : raised[t] = "") =>
            LET v == movies_and_shows_view(db)
            IN  /\ ViewMultiplicity(v, "movies", "movie_id", Product)
                /\ ViewMultiplicity(v, "shows", "show_id", Product)

\* C8: a title with N actor links and M genre links and no other
\* multi-valued link has exactly max(N,1) * max(M,1) rows in the view: N * M
\* where it has both (2 actors and 3 genres give 6), and the rows of the
\* other side where it has no actor or no genre.
C8_LeftJoinProduct ==
    view => LET v == movies_and_shows_view(db)
            IN  /\ ViewMultiplicity(v, "movies", "movie_id", LeftJoinProduct)
                /\ ViewMultiplicity(v, "shows", "show_id", LeftJoinProduct)

\* a movie with 2 actors and 3 genres, and its 6 rows in the view
C8_Witness ==
    /\ view
    /\ Count(db["actors_bridge"], LAMBDA x : x.movie_id = tm1) = 2
    /\ Count(db["genres_bridge"], LAMBDA x : x.movie_id = tm1) = 3
    /\ NoOtherMultiLink(tm1, "movie_id")
    /\ Count(movies_and_shows_view(db), LAMBDA x : x.movie_id = tm1) = 6

--------------------------------------------------------------------------
(* Properties of the list normalisation (checked under SpecNormalize).    *)

\* C15: the normalisation of a list cell removes the list syntax only: the
\* tokens it produces from the cell written from a list of names are these
\* names, in order and character for character, also where a name holds an
\* apostrophe, a bracket or the separator.
C15_TokensAreTheNames ==
    (cellDone /\ cellNames # <<>>) => cellTokens = cellNames

--------------------------------------------------------------------------
(* Further properties of the pipeline run (checked under Spec).           *)

\* no row of the credits read gives the title an actor
NoActorCredit(id) ==
    \A k \in 1..Len(credits) : ~(credits[k].id = id /\ credits[k].role = "ACTOR")

\* the run was aborted after the setup, before the transformed data was there
TransformFailed ==
    /\ Info("Created database tables based on schema.", "") \in Range(log)
    /\ Info("Transformed data.", "") \notin Range(log)
    /\ Error("An error occurred", "") \in Range(log)

\* C18: a title (a movie or a show) without any credit of role ACTOR has no
\* row in the actor bridge set and none in the character bridge set, and the
\* run does not fail in the transformation over it.
C18_NoActorNoLink ==
    \A k \in 1..Len(titles) :
        (titles[k].type \in {"MOVIE", "SHOW"} /\ NoActorCredit(titles[k].id)) =>
            /\ titles[k].id \notin LinkedIds("actors_bridge")
            /\ titles[k].id \notin LinkedIds("characters_bridge")
            /\ ~TransformFailed

\* a step of the setup (the connection string, the engine, the database, the
\* two files, the schema) raised in this run
SetupFailed ==
    /\ Error("An error occurred", "") \in Range(log)
    /\ Info("Created database tables based on schema.", "") \notin Range(log)

\* C19: when a step of the setup fails the run is aborted: the error is
\* logged and is the last record of the run, no table load is attempted, no
\* view is created, and all that is left of the run is the finally block
\* that shuts the logging down.
C19_SetupFailureAborts ==
    SetupFailed =>
        /\ log[Len(log)] = Error("An error occurred", "")
        /\ attempts = <<>>
        /\ \A t \in Tables : raised[t] = ""
        /\ ViewCreated \notin Range(log)
        /\ pc \in {"finally", "exit"}

\* the run ended after reading the credits file failed
C19_Witness ==
    /\ SetupFailed
    /\ pc = "exit"
    /\ Info("Loaded titles dataset.", "") \in Range(log)
    /\ Info("Loaded credits dataset.", "") \notin Range(log)

--------------------------------------------------------------------------
(* Properties of the view over any titles file (checked under             *)
(* SpecMistyped).                                                         *)

\* C20: every row of the view has exactly one of movie_id and show_id, and
\* which one follows from the prefix of the title's id alone: an id with the
\* movie prefix stands in movie_id of a row of media_type 'movie', an id
\* with the show prefix in show_id of a row of media_type 'show' (stated of
\* the runs that no fault of the environment disturbs).
C20_ViewKeyByPrefix ==
    (view /\ faults = 0) =>
        \A r \in Range(movies_and_shows_view(db)) :
            \/ /\ ~IsNaN(r.movie_id) /\ IsNaN(r.show_id)
               /\ StartsWith(r.movie_id, MoviePrefix)
               /\ r.media_type = "movie"
            \/ /\ IsNaN(r.movie_id) /\ ~IsNaN(r.show_id)
               /\ StartsWith(r.show_id, ShowPrefix)
               /\ r.media_type = "show"

\* the table is attempted, and the other one before it
\* the table attempted at position k of the run follows the table other
AttemptedAfter(k, other) == \E j \in 1..(k - 1) : attempts[j] = other

\* C28: the loader respects every foreign key of the schema: in each run a
\* table is attempted only after every table its foreign keys reference
\* (movies and shows before the five bridge tables and imdb_info, each
\* entity table before its bridge, actors before characters_bridge).
C28_ReferencedTablesFirst ==
    \A k \in 1..Len(attempts) :
        \A fk \in ForeignKeys(attempts[k]) : AttemptedAfter(k, fk.ref)

\* the loader has gone through the whole list
C28_Witness ==
    /\ pc = "view"
    /\ Len(attempts) = Len(data_table_pairs)
    /\ attempts[12] = "characters_bridge"
    /\ \E k \in 1..Len(credits) : credits[k].role = "ACTOR"

\* C29: a load that raises an error which is no database error ends the
\* loader: the table is the last one attempted in the run, the view is not
\* created, and the run ends in the outer handler with the error logged last.
C29_OtherErrorIsFatal ==
    \A t \in Tables :
        raised[t] = "Exception" =>
            /\ attempts # <<>> /\ attempts[Len(attempts)] = t
            /\ \A k \in 1..(Len(attempts) - 1) : attempts[k] # t
            /\ ViewCreated \notin Range(log)
            /\ log[Len(log)] = Error("An error occurred", "")
            /\ pc \in {"finally", "exit"}

\* the load of genres_bridge raised it after three loads had stored
C29_Witness ==
    /\ raised["genres_bridge"] = "Exception"
    /\ pc = "exit"
    /\ Len(attempts) = 4
    /\ Info("Inserted data into table.", "genres") \in Range(log)

\* the database is as a fully successful run on the source files leaves it:
\* every table holds exactly the rows extracted from the files, and the view
\* is defined
FullyLoaded ==
    /\ view
    /\ db = Transformed(files.titles, files.credits)

\* a run on that database that no fault of the environment disturbs
SecondRun ==
    /\ faults = 0
    /\ ViewCreated \notin Range(log)
    /\ FullyLoaded

\* C30: a run on the same source files against the database left by a fully
\* successful run adds no row to any table and leaves the view as it was;
\* every table is attempted, the append of every frame that has rows is
\* refused and skipped, and the run ends in the outer handler, at the
\* creation of the view, without reaching the dispose.
C30_SecondRunAddsNothing ==
    /\ [][(db' # db \/ view' # view) => ~FullyLoaded]_vars
    /\ [](pc \in {"finally", "exit"} /\ SecondRun =>
            /\ attempts = data_table_pairs
            /\ \A t \in Tables :
                  raised[t] = IF data[t] = <<>> THEN "" ELSE "IntegrityError"
            /\ log[Len(log)] = Error("An error occurred", "")
            /\ Info("Database connection closed and resources disposed.", "")
                  \notin Range(log))

\* the second run over a movie with its actors and director has ended
C30_Witness ==
    /\ SecondRun
    /\ pc = "exit"
    /\ Len(db["movies"]) = 1
    /\ Len(db["actors_bridge"]) = 1
    /\ Len(db["directors_bridge"]) = 1
    /\ raised["movies"] = "IntegrityError"


---------------------------------------------------------------------------
(* Properties of the serving layer (checked under SpecApi).                *)

Requests == 1..MaxRequests
Running(r) == req[r].phase \in {"handler", "returned", "raised"}
Finished(r) == req[r].phase = "closed"

\* C25: every request has a session of its own, which no other request
\* uses and which is open while the request runs; the session is closed
\* once the request has ended, whether its handler returned or raised, so
\* that no session is open when every request received has finished
C25_SessionPerRequest ==
    /\ \A r \in Requests : Running(r) => req[r].session \in sessions
    /\ \A r, q \in Requests :
          r # q /\ req[r].phase # "idle" /\ req[q].phase # "idle"
              => req[r].session # req[q].session
    /\ \A r \in Requests : Finished(r) => req[r].session \notin sessions
    /\ (\A r \in Requests : req[r].phase \in {"idle", "closed"}) => sessions = {}

\* a handler returned and a handler raised, every request has ended and no
\* session is open
C25_Witness ==
    /\ \A r \in Requests : Finished(r)
    /\ predictions # <<>>
    /\ faults > 0
    /\ sessions = {}
    /\ created = MaxRequests

\* the handler of request r returns in this step
Returns(r, endpoint) ==
    /\ req[r].phase = "handler"
    /\ req[r].call.endpoint = endpoint
    /\ req'[r].phase = "returned"

\* C21: no step of the serving layer changes a table the pipeline loaded or
\* the view; every prediction record stored is still stored after the step
\* with its index, timestamp, user_id and prediction_value; the predictions
\* change only when a submit_prediction handler returns, and that step adds
\* exactly one record
C21_ReadOnlyAppendOnly ==
    [][/\ db' = db
       /\ view' = view
       /\ \A k \in 1..Len(predictions) :
             \E j \in 1..Len(predictions') : predictions'[j] = predictions[k]
       /\ predictions' # predictions
             => \E r \in Requests : Returns(r, "submit_prediction")
       /\ (\E r \in Requests : Returns(r, "submit_prediction"))
             => Len(predictions') = Len(predictions) + 1]_vars

\* a second submission has been stored after the first, a request has
\* ended, and the database still holds what the pipeline loaded
C21_Witness ==
    /\ Len(predictions) = 2
    /\ predictions[1].index # predictions[2].index
    /\ predictions[1].timestamp # predictions[2].timestamp
    /\ \E r \in Requests : Finished(r)
    /\ db = Transformed(ApiTitles, ApiCredits)
    /\ Len(MoviesAndShowsView(db)) = 3
    /\ view

\* C22: when a submit_prediction handler returns, one record has been
\* stored that carries the user_id and the value submitted, the time of the
\* server as its timestamp and an index greater than the index of every
\* record stored before, and the response is that record, its index and
\* its timestamp included
C22_ResponseIsStoredRecord ==
    [][\A r \in Requests :
          Returns(r, "submit_prediction") =>
              LET stored == predictions'[Len(predictions')]
              IN  /\ Len(predictions') = Len(predictions) + 1
                  /\ stored.user_id = req[r].call.user_id
                  /\ stored.prediction_value = req[r].call.prediction_value
                  /\ stored.timestamp = clock
                  /\ \A k \in 1..Len(predictions) : stored.index > predictions[k].index
                  /\ DOMAIN req'[r].response = DOMAIN stored
                  /\ \A c \in DOMAIN stored : req'[r].response[c] = stored[c]]_vars

---------------------------------------------------------------------------
(* Properties of the list queries (checked under SpecQuery).               *)

\* sub occurs in text
Contains(text, sub) ==
    \E k \in 0..(Len(text) - Len(sub)) : SubSeq(text, k + 1, k + Len(sub)) = sub

\* the row satisfies every filter given, as the filters are documented
Satisfies(row, f) ==
    /\ \A c \in {"media_type", "title", "genre", "country", "director", "actor",
                  "character"} :
          \A value \in f[c] : ~IsNaN(row[c]) /\ Contains(Lower(row[c]), Lower(value))
    /\ \A value \in f.release_year : row.release_year = value
    /\ \A value \in f.age_certification : row.age_certification = value
    /\ \A value \in f.imdb_score : row.imdb_score # NaNInt /\ row.imdb_score > value
    /\ \A value \in f.imdb_votes : row.imdb_votes # NaNInt /\ row.imdb_votes > value

\* the request asks for the media from the first row on, with the default
\* limit, and has its response
MediaReturned(r) ==
    /\ req[r].phase = "returned"
    /\ req[r].call.endpoint = "read_media"
    /\ req[r].call.skip = 0
    /\ req[r].call.limit = DefaultLimit

\* C23: the response to a media query (of fewer rows than its limit) holds
\* exactly the rows of the view that satisfy every filter given, in some
\* order: each text filter as a substring without regard to case, the year
\* and the certification by equality, score and votes above the threshold;
\* when no row satisfies the filters the response is the empty sequence
C23_MediaFilters ==
    \A r \in Requests :
        MediaReturned(r) =>
            req[r].response \in
                RowOrders(Records(SelectSeq(MoviesAndShowsView(db),
                                            LAMBDA row : Satisfies(row, req[r].call.f)),
                                  MovieShow))

\* the records a list query selects, before they are ordered and paged
Matching(call) ==
    IF call.endpoint = "read_movies" THEN Records(db["movies"], MovieBase)
    ELSE IF call.endpoint = "read_shows" THEN Records(db["shows"], ShowBase)
    ELSE Records(SelectSeq(MoviesAndShowsView(db),
                           LAMBDA row : MediaMatches(row, call.f)),
                 MovieShow)

\* C24: there is one ordering of the matching rows of which the response to
\* every request of the same list and filter, over the same data, is the
\* page: the records at the positions skip+1..skip+limit, at most limit of
\* them, so that consecutive pages hold every matching row exactly once
C24_PagesOfOneOrdering ==
    \A r, q \in Requests :
        /\ req[r].phase = "returned" /\ req[q].phase = "returned"
        /\ req[r].call.endpoint = req[q].call.endpoint
        /\ req[r].call.f = req[q].call.f
        => \E rows \in RowOrders(Matching(req[r].call)) :
              /\ req[r].response = OffsetLimit(rows, req[r].call.skip, req[r].call.limit)
              /\ req[q].response = OffsetLimit(rows, req[q].call.skip, req[q].call.limit)
=============================================================================
